---- MODULE Spec2Model ----
(***************************************************************************)
(* Model of src/main.py: the FLAIR signature pipeline for the top crates.  *)
(*                                                                         *)
(*   get_top_crates      paginated registry listing                        *)
(*   download_crate      metadata + archive download + unpack              *)
(*   build_as_staticlib  Cargo.toml patch, host build, cross build         *)
(*   find_static_lib     first .a / .lib file of a directory               *)
(*   generate_pat        pelf / pcf per artifact                           *)
(*   generate_sig        sigmake with one retry after .exc cleanup         *)
(*   main                per-crate loop with a catch-all handler           *)
(*                                                                         *)
(* The registry, cargo, the FLAIR tools and the file system are the        *)
(* environment: every outcome they can deliver is a nondeterministic       *)
(* choice of the action that calls them.                                   *)
(***************************************************************************)
EXTENDS Integers, Sequences, FiniteSets, TLC

(* ------------------------------ bounds -------------------------------- *)

\* registry sizes and requested counts range over 0 .. MaxPages pages (+-1)
MaxPages == 2
\* number of crates the registry holds in a run of main
MaxCrates == 2
\* length of the artifact list handed to generate_pat on its own
MaxLibs == 2
\* number of lines of an exclusion file
MaxExcLines == 2
\* number of times the manifest patch is applied to one checkout
MaxPatches == 2

(* ------------------------- program constants -------------------------- *)

NUM_TOP == 100
per_page == 100

FLAIR_DIR == "flair"
OUTPUT_DIR == "output"
CRATES_DIR == "crates"

(* ------------------------------ state --------------------------------- *)

VARIABLES
    pc,               \* position of the single thread of control
    err,              \* the exception in flight or last caught ("none")
    n, total,         \* get_top_crates: requested count; registry size
    crates, page,     \* get_top_crates: accumulated ids; page number
    requests,         \* pages requested from the registry, in order
    top_crates, i,    \* main: the list and the 1-based loop position
    downloads,        \* names download_crate was called with, in order
    failed,           \* names the handler of main logged "Failed for", in order
    tools,            \* the executables present in FLAIR_DIR
    cargo_orig,       \* Cargo.toml of the checkout as unpacked
    cargo_file,       \* Cargo.toml of the checkout now
    patches,          \* times the manifest patch was applied to it
    hostOutcome,      \* what cargo does for the default target
    crossOutcome,     \* what cargo does for x86_64-pc-windows-msvc
    built_libs,       \* build_as_staticlib: built_libs
    build_raised,     \* build_as_staticlib left by an exception
    static_lib_paths, \* generate_pat: the argument
    crate_name,       \* generate_pat / generate_sig: the crate_name argument
    k,                \* generate_pat: 1-based loop position
    generated_pats,   \* generate_pat: generated_pats
    pat_paths, j,     \* main: the pattern list and the 1-based position
    pat_path,         \* generate_sig: the argument
    sig_args,         \* the pattern files generate_sig was called with
    exc,              \* the exclusion file of pat_path
    sig_ret,          \* what each generate_sig call of this crate returned
    calls,            \* subprocess invocations made for the current crate
    disk              \* artifact/pattern/signature files known to exist

vars == << pc, err, n, total, crates, page, requests, top_crates, i,
           downloads, failed, tools, cargo_orig, cargo_file, patches, hostOutcome,
           crossOutcome, built_libs, build_raised, static_lib_paths,
           crate_name, k, generated_pats, pat_paths, j, pat_path, sig_args,
           exc, sig_ret, calls, disk >>

gtcVars == << n, total, crates, page, requests >>
buildVars == << cargo_orig, cargo_file, patches, hostOutcome, crossOutcome,
                built_libs, build_raised >>
patVars == << static_lib_paths, k, generated_pats >>
sigVars == << pat_paths, j, pat_path, sig_args, exc, sig_ret >>

(* ------------------------------ helpers ------------------------------- *)

Min(a, b) == IF a < b THEN a ELSE b
Max(a, b) == IF a > b THEN a ELSE b

\* a file-system path: directory, crate, platform suffix, extension
Path(dir, crate, suffix, ext) ==
    [dir |-> dir, crate |-> crate, suffix |-> suffix, ext |-> ext]

\* Python's None where a path is expected
None == Path("", 0, "", "")

\* a dict as a function from its keys
EmptyDict == << >>
Has(d, key) == key \in DOMAIN d
Put(d, key, v) == [x \in DOMAIN d \cup {key} |-> IF x = key THEN v ELSE d[x]]
Get(d, key, default) == IF Has(d, key) THEN d[key] ELSE default
Without(d, key) == [x \in DOMAIN d \ {key} |-> d[x]]

\* an exception: its class and the function that raised it
Exc(type, at) == [type |-> type, at |-> at]
NoExc == Exc("none", "")

\* one subprocess.check_call: the tool, its input, its output, the exit,
\* and whether the output existed once the call was over
Call(tool, arg, out, exit, made) ==
    [tool |-> tool, arg |-> arg, out |-> out, exit |-> exit, made |-> made]

(* --------------------------- get_top_crates --------------------------- *)

\* the registry: ids 1 .. tot in descending download order; the page p of
\* GET /api/v1/crates?page=p&per_page=100&sort=downloads
RegistryPage(tot, p) ==
    [x \in 1 .. Min(per_page, Max(0, tot - (p - 1) * per_page)) |->
        (p - 1) * per_page + x]

\* a plausible slip: the accumulated list is returned untrimmed
TrimNone(s, m) == s

\* crates[:n]
Trim(s, m) == SubSeq(s, 1, Min(m, Len(s)))

\* one iteration of the while loop: request a page, extend, break or go on
GtcIter ==
    /\ pc = "gtc_loop"
    /\ Len(crates) < n
    /\ requests' = Append(requests, page)
    /\ \E http_ok \in BOOLEAN :
          IF ~http_ok
          THEN /\ pc' = "crashed"
               /\ err' = Exc("HTTPError", "get_top_crates")
               /\ UNCHANGED << crates, page >>
          ELSE LET page_crates == RegistryPage(total, page)
                   acc == crates \o page_crates
               IN  /\ crates' = acc
                   /\ err' = err
                   /\ IF Len(page_crates) < per_page \/ Len(acc) >= n
                      THEN pc' = "gtc_return" /\ page' = page
                      ELSE pc' = "gtc_loop" /\ page' = page + 1
    /\ UNCHANGED << n, total, top_crates, i, downloads, failed, tools, buildVars,
                    patVars, crate_name, sigVars, calls, disk >>

\* the loop is over (its condition is false, or it broke): return crates[:n]
\* to main, which starts its for loop
GtcReturn ==
    /\ \/ pc = "gtc_return"
       \/ pc = "gtc_loop" /\ Len(crates) >= n
    /\ top_crates' = Trim(crates, n)
    /\ i' = 1
    /\ pc' = "main_loop"
    /\ UNCHANGED << err, gtcVars, downloads, failed, tools, buildVars, patVars,
                    crate_name, sigVars, calls, disk >>

(* --------------------------- manifest patch --------------------------- *)

\* a plausible slip: "staticlib" is added to the declared kinds instead of
\* replacing them
PatchManifestAppend(m) ==
    LET lib == Get(m, "lib", EmptyDict)
        m1 == Put(m, "lib",
                  Put(lib, "crate-type",
                      Get(lib, "crate-type", << >>) \o << "staticlib" >>))
        prof == Get(m1, "profile", EmptyDict)
        rel == Get(prof, "release", EmptyDict)
    IN  Put(m1, "profile",
            Put(prof, "release",
                IF Has(rel, "panic") THEN rel ELSE Put(rel, "panic", "abort")))

\* cargo_data.setdefault("lib", {})["crate-type"] = ["staticlib"]
\* release_profile = cargo_data.setdefault("profile", {}).setdefault("release", {})
\* if "panic" not in release_profile: release_profile["panic"] = "abort"
PatchManifest(m) ==
    LET lib == Get(m, "lib", EmptyDict)
        m1 == Put(m, "lib", Put(lib, "crate-type", << "staticlib" >>))
        prof == Get(m1, "profile", EmptyDict)
        rel == Get(prof, "release", EmptyDict)
    IN  Put(m1, "profile",
            Put(prof, "release",
                IF Has(rel, "panic") THEN rel ELSE Put(rel, "panic", "abort")))

\* the dicts with at most the key `key`, its value drawn from V
Opt(key, V) == {EmptyDict} \cup {key :> v : v \in V}

CrateTypes == { << "rlib" >>, << "staticlib" >>, << "cdylib", "rlib" >> }
LibTables ==
    {a @@ b : a \in Opt("crate-type", CrateTypes), b \in Opt("name", {"foo"})}
ReleaseTables ==
    {a @@ b : a \in Opt("panic", {"abort", "unwind"}),
              b \in Opt("opt-level", {"s"})}
ProfileTables ==
    {a @@ b : a \in Opt("release", ReleaseTables),
              b \in Opt("dev", {"opt-level" :> "s"})}
PackageTable == "name" :> "alpha"

\* the manifests toml.load can deliver, over the keys above
Manifests ==
    {a @@ b @@ c : a \in Opt("package", {PackageTable}),
                   b \in Opt("lib", LibTables),
                   c \in Opt("profile", ProfileTables)}

\* a Cargo.toml on disk: present or not, and what toml.load reads from it
File(exists, data) == [exists |-> exists, data |-> data]
NoFile == File(FALSE, EmptyDict)

\* build_as_staticlib's load / patch / dump, applied to the checkout again
ApplyPatch ==
    /\ pc = "patch"
    /\ patches < MaxPatches
    /\ cargo_file.exists
    /\ cargo_file' = File(TRUE, PatchManifest(cargo_file.data))
    /\ patches' = patches + 1
    /\ UNCHANGED << pc, err, gtcVars, top_crates, i, downloads, failed, tools,
                    cargo_orig, hostOutcome, crossOutcome, built_libs,
                    build_raised, patVars, crate_name, sigVars, calls, disk >>

(* --------------------------- download_crate --------------------------- *)

\* os.path.join(CRATES_DIR, f"{name}-{version}")
CrateDir(name) == Path(CRATES_DIR, name, "", "")

\* two checkouts main meets: a bare manifest, and one that declares its own
\* library kinds and panic policy
MainManifests ==
    { "package" :> PackageTable,
      ("package" :> PackageTable)
         @@ ("lib" :> ("crate-type" :> << "cdylib", "rlib" >>))
         @@ ("profile" :> ("release" :> ("panic" :> "unwind"))) }

\* what the two HTTP requests and the unpacking can do
DownloadOutcomes == {"ok", "meta_http_error", "archive_http_error", "unpack_error"}

DownloadError(outcome) ==
    Exc(IF outcome = "unpack_error" THEN "ReadError" ELSE "HTTPError",
        "download_crate")

\* main line 218: download_crate(name), whole; an unpacked archive may or
\* may not hold a Cargo.toml
DownloadCrate ==
    /\ pc = "download"
    /\ downloads' = Append(downloads, top_crates[i])
    /\ \E outcome \in DownloadOutcomes :
          IF outcome = "ok"
          THEN /\ \E f \in {NoFile} \cup {File(TRUE, m) : m \in MainManifests} :
                     cargo_orig' = f /\ cargo_file' = f
               /\ pc' = "build_patch"
               /\ err' = err
          ELSE /\ pc' = "except"
               /\ err' = DownloadError(outcome)
               /\ UNCHANGED << cargo_orig, cargo_file >>
    /\ UNCHANGED << gtcVars, top_crates, i, failed, tools, patches, hostOutcome,
                    crossOutcome, built_libs, build_raised, patVars,
                    crate_name, sigVars, calls, disk >>

(* -------------------------- find_static_lib --------------------------- *)

\* what a cargo build does: its exit, and the release directory it leaves
\* (present or not, and the extensions of the files os.listdir gives)
Outcome(exit, isdir, files) == [exit |-> exit, isdir |-> isdir, files |-> files]
NoOutcome == Outcome("none", FALSE, << >>)

\* the host is Linux (line 87): its release directory holds lib<crate>.a
\* beside the .d file, the cross one <crate>.lib
CargoOutcomes(ext) ==
    { Outcome("fail", FALSE, << >>), Outcome("oserror", FALSE, << >>),
      Outcome("ok", FALSE, << >>), Outcome("ok", TRUE, << "d" >>),
      Outcome("ok", TRUE, << "d", ext >>) }

HostDir == "target/release"
CrossDir == "target/x86_64-pc-windows-msvc/release"

StaticLibExts == {"a", "lib"}

\* the path of the first listed file ending in .a or .lib; None when the
\* directory is missing or holds none
find_static_lib(target_dir, crate, o) ==
    LET hits == {x \in 1 .. Len(o.files) : o.files[x] \in StaticLibExts}
    IN  IF ~o.isdir \/ hits = {}
        THEN None
        ELSE Path(target_dir, crate, "",
                  o.files[CHOOSE x \in hits : \A y \in hits : x <= y])

(* ------------------------- build_as_staticlib ------------------------- *)

\* lines 68-82: load, patch and write back Cargo.toml.  What cargo will do
\* for each of the two targets is fixed here, before either is tried.
BuildPatch ==
    /\ pc = "build_patch"
    /\ IF ~cargo_file.exists
       THEN /\ pc' = "except"
            /\ err' = Exc("FileNotFoundError", "build_as_staticlib")
            /\ build_raised' = TRUE
            /\ UNCHANGED << cargo_file, patches, hostOutcome, crossOutcome >>
       ELSE /\ cargo_file' = File(TRUE, PatchManifest(cargo_file.data))
            /\ patches' = patches + 1
            /\ hostOutcome' \in CargoOutcomes("a")
            /\ crossOutcome' \in CargoOutcomes("lib")
            /\ pc' = "build_host"
            /\ UNCHANGED << err, build_raised >>
    /\ UNCHANGED << gtcVars, top_crates, i, downloads, failed, tools, cargo_orig,
                    built_libs, patVars, crate_name, sigVars, calls, disk >>

\* one target of the try block: cargo build, then find_static_lib.  A
\* CalledProcessError leaves the try block for its handler (line 109), any
\* other exception leaves the function.
BuildTarget(here, dir, o, next) ==
    /\ pc = here
    /\ calls' = Append(calls, Call("cargo", CrateDir(top_crates[i]),
                                   Path(dir, top_crates[i], "", ""), o.exit,
                                   find_static_lib(dir, top_crates[i], o) # None))
    /\ IF o.exit = "ok"
       THEN LET lib == find_static_lib(dir, top_crates[i], o)
            IN  /\ built_libs' = IF lib # None THEN Append(built_libs, lib)
                                               ELSE built_libs
                /\ disk' = IF lib # None THEN disk \cup {lib} ELSE disk
                /\ pc' = next
                /\ UNCHANGED << err, build_raised >>
       ELSE IF o.exit = "fail"
       THEN /\ pc' = "build_return"
            /\ UNCHANGED << err, build_raised, built_libs, disk >>
       ELSE /\ pc' = "except"
            /\ err' = Exc("FileNotFoundError", "build_as_staticlib")
            /\ build_raised' = TRUE
            /\ UNCHANGED << built_libs, disk >>
    /\ UNCHANGED << gtcVars, top_crates, i, downloads, failed, tools, cargo_orig,
                    cargo_file, patches, hostOutcome, crossOutcome, patVars,
                    crate_name, sigVars >>

\* lines 87-94
BuildHost == BuildTarget("build_host", HostDir, hostOutcome, "build_cross")

\* lines 96-107
BuildCross == BuildTarget("build_cross", CrossDir, crossOutcome, "build_return")

\* line 113 and main lines 219-226: return built_libs; main skips the crate
\* when the list is empty and calls generate_pat(lib_paths, name) otherwise
BuildReturn ==
    /\ pc = "build_return"
    /\ IF built_libs = << >>
       THEN /\ pc' = "main_loop"
            /\ i' = i + 1
            /\ UNCHANGED << static_lib_paths, crate_name, k, generated_pats >>
       ELSE /\ pc' = "gp_loop"
            /\ static_lib_paths' = built_libs
            /\ crate_name' = top_crates[i]
            /\ k' = 1
            /\ generated_pats' = << >>
            /\ i' = i
    /\ UNCHANGED << err, gtcVars, top_crates, downloads, failed, tools, buildVars,
                    sigVars, calls, disk >>

(* ---------------------------- generate_pat ---------------------------- *)

\* a plausible slip: everything that is not a .lib is taken for an ELF archive
PlatformOfLoose(ext) == IF ext = "lib" THEN "windows" ELSE "linux"

\* lines 136-148: the platform of an artifact, by its extension
PlatformOf(ext) ==
    IF ext = "a" THEN "linux" ELSE IF ext = "lib" THEN "windows" ELSE "unknown"

ToolOf(platform) == IF platform = "linux" THEN "pelf" ELSE "pcf"

\* a plausible slip: the two suffixes swapped
SuffixOfSwapped(platform) == IF platform = "linux" THEN "_win" ELSE "_linux"

SuffixOf(platform) == IF platform = "linux" THEN "_linux" ELSE "_win"

\* os.path.join(OUTPUT_DIR, f"{crate_name}{suffix}.pat")
PatPath(crate, platform) == Path(OUTPUT_DIR, crate, SuffixOf(platform), "pat")

\* lines 157-159: the tool returned 0 and the pattern file exists
PatProduced(exit, made) == exit = "ok" /\ made

\* the file `path` after a tool ran with it as output
Written(files, path, made) ==
    IF made THEN files \cup {path} ELSE files \ {path}

\* one iteration of the for loop, lines 130-164
GenPatIter ==
    /\ pc = "gp_loop"
    /\ k <= Len(static_lib_paths)
    /\ LET lib_path == static_lib_paths[k]
           platform == PlatformOf(lib_path.ext)
           out == PatPath(crate_name, platform)
       IN  IF lib_path \notin disk \/ platform = "unknown"
           THEN /\ k' = k + 1
                /\ UNCHANGED << pc, err, generated_pats, calls, disk >>
           ELSE IF ToolOf(platform) \notin tools
           THEN /\ pc' = "except"
                /\ err' = Exc("FileNotFoundError", "generate_pat")
                /\ UNCHANGED << k, generated_pats, calls, disk >>
           ELSE \E exit \in {"ok", "fail"}, made \in BOOLEAN :
                /\ calls' = Append(calls, Call(ToolOf(platform), lib_path,
                                               out, exit, made))
                /\ disk' = Written(disk, out, made)
                /\ generated_pats' = IF PatProduced(exit, made)
                                     THEN Append(generated_pats, out)
                                     ELSE generated_pats
                /\ k' = k + 1
                /\ UNCHANGED << pc, err >>
    /\ UNCHANGED << gtcVars, top_crates, i, downloads, failed, tools, buildVars,
                    static_lib_paths, crate_name, sigVars >>

\* line 166 and main lines 226-233: return generated_pats; main skips the
\* crate when the list is empty and starts the signature loop otherwise
GenPatReturn ==
    /\ pc = "gp_loop"
    /\ k > Len(static_lib_paths)
    /\ pat_paths' = generated_pats
    /\ j' = 1
    /\ IF generated_pats = << >>
       THEN pc' = "main_loop" /\ i' = i + 1
       ELSE pc' = "main_sig_loop" /\ i' = i
    /\ UNCHANGED << err, gtcVars, top_crates, downloads, failed, tools, buildVars,
                    patVars, crate_name, pat_path, sig_args, exc, sig_ret,
                    calls, disk >>

(* ---------------------------- generate_sig ---------------------------- *)

\* sig_base_name = os.path.basename(pat_path[:-4]), then the two siblings
SigPath(p) == Path(OUTPUT_DIR, p.crate, p.suffix, "sig")
ExcPath(p) == Path(OUTPUT_DIR, p.crate, p.suffix, "exc")

\* the lines an exclusion file may hold
LineKinds == {"entry", "blank", "comment", "indented_comment"}

\* line 195: line.strip() and not line.startswith(";")
Kept(line) == line \in {"entry", "indented_comment"}

\* lines 191-196: the file rewritten with the kept lines only
RECURSIVE CleanExc(_)
CleanExc(lines) ==
    IF lines = << >>
    THEN << >>
    ELSE IF Kept(Head(lines))
         THEN << Head(lines) >> \o CleanExc(Tail(lines))
         ELSE CleanExc(Tail(lines))

SeqsUpTo(S, len) == UNION {[1 .. m -> S] : m \in 0 .. len}

NoExcFile == [exists |-> FALSE, lines |-> << >>]
ExcFiles ==
    {NoExcFile} \cup
    {[exists |-> TRUE, lines |-> l] : l \in SeqsUpTo(LineKinds, MaxExcLines)}

\* a plausible slip: the retry is made whether or not an .exc file exists
ShouldRetryAlways(e) == TRUE

\* line 189: os.path.exists(exc_path)
ShouldRetry(e) == e.exists

\* main line 233-234: the next pattern file, or the end of the crate
MainSigLoop ==
    /\ pc = "main_sig_loop"
    /\ IF j > Len(pat_paths)
       THEN /\ pc' = "main_loop"
            /\ i' = i + 1
            /\ UNCHANGED << pat_path, sig_args, exc >>
       ELSE /\ pc' = "gs_start"
            /\ pat_path' = pat_paths[j]
            /\ sig_args' = Append(sig_args, pat_paths[j])
            /\ exc' = NoExcFile
            /\ i' = i
    /\ UNCHANGED << err, gtcVars, top_crates, downloads, failed, tools, buildVars,
                    patVars, crate_name, pat_paths, j, sig_ret, calls, disk >>

\* lines 171-185: sigmake must exist; then the first invocation.  A failing
\* sigmake leaves an exclusion file or not.
GenSigAttempt ==
    /\ pc = "gs_start"
    /\ IF "sigmake" \notin tools
       THEN /\ pc' = "except"
            /\ err' = Exc("FileNotFoundError", "generate_sig")
            /\ UNCHANGED << exc, calls, disk >>
       ELSE \E exit \in {"ok", "fail"}, made \in BOOLEAN :
            /\ calls' = Append(calls, Call("sigmake", pat_path,
                                           SigPath(pat_path), exit, made))
            /\ disk' = Written(disk, SigPath(pat_path), made)
            /\ err' = err
            /\ IF exit = "ok"
               THEN pc' = "gs_check" /\ exc' = exc
               ELSE pc' = "gs_collision" /\ exc' \in ExcFiles
    /\ UNCHANGED << gtcVars, top_crates, i, downloads, failed, tools, buildVars,
                    patVars, crate_name, pat_paths, j, pat_path, sig_args,
                    sig_ret >>

\* lines 186-201, the handler of the first failure: clean the exclusion
\* file and retry, outside any try; or return None
GenSigCollision ==
    /\ pc = "gs_collision"
    /\ IF ShouldRetry(exc)
       THEN \E exit \in {"ok", "fail"}, made \in BOOLEAN :
            /\ exc' = [exc EXCEPT !.lines = CleanExc(exc.lines)]
            /\ calls' = Append(calls, Call("sigmake", pat_path,
                                           SigPath(pat_path), exit, made))
            /\ disk' = Written(disk, SigPath(pat_path), made)
            /\ IF exit = "ok"
               THEN pc' = "gs_check" /\ err' = err
               ELSE /\ pc' = "except"
                    /\ err' = Exc("CalledProcessError", "generate_sig")
            /\ UNCHANGED << j, sig_ret >>
       ELSE /\ sig_ret' = Append(sig_ret, None)
            /\ j' = j + 1
            /\ pc' = "main_sig_loop"
            /\ UNCHANGED << err, exc, calls, disk >>
    /\ UNCHANGED << gtcVars, top_crates, i, downloads, failed, tools, buildVars,
                    patVars, crate_name, pat_paths, pat_path, sig_args >>

\* lines 203-208 and main 235-236: the path if the file exists, else None
GenSigCheck ==
    /\ pc = "gs_check"
    /\ sig_ret' = Append(sig_ret, IF SigPath(pat_path) \in disk
                                  THEN SigPath(pat_path) ELSE None)
    /\ j' = j + 1
    /\ pc' = "main_sig_loop"
    /\ UNCHANGED << err, gtcVars, top_crates, i, downloads, failed, tools, buildVars,
                    patVars, crate_name, pat_paths, pat_path, sig_args, exc,
                    calls, disk >>

(* -------------------------------- main -------------------------------- *)

\* a plausible slip: the handler names the subprocess failure only
MainCatchesSubprocess(e) == e.type = "CalledProcessError"

\* line 238: except Exception
MainCatches(e) == TRUE

\* line 214: the next name of the list, or the end of the run.  What is
\* kept about one crate is dropped when the next one starts.
MainNext ==
    /\ pc = "main_loop"
    /\ IF i > Len(top_crates)
       THEN /\ pc' = "done"
            /\ UNCHANGED << err, buildVars, patVars, crate_name, sigVars,
                            calls, disk >>
       ELSE /\ pc' = "download"
            /\ err' = NoExc
            /\ cargo_orig' = NoFile
            /\ cargo_file' = NoFile
            /\ patches' = 0
            /\ hostOutcome' = NoOutcome
            /\ crossOutcome' = NoOutcome
            /\ built_libs' = << >>
            /\ build_raised' = FALSE
            /\ static_lib_paths' = << >>
            /\ crate_name' = 0
            /\ k' = 1
            /\ generated_pats' = << >>
            /\ pat_paths' = << >>
            /\ j' = 1
            /\ pat_path' = None
            /\ sig_args' = << >>
            /\ exc' = NoExcFile
            /\ sig_ret' = << >>
            /\ calls' = << >>
            /\ disk' = {}
    /\ UNCHANGED << gtcVars, top_crates, i, downloads, failed, tools >>

\* lines 238-239: log and go on with the next name
MainExcept ==
    /\ pc = "except"
    /\ IF MainCatches(err)
       THEN /\ pc' = "main_loop"
            /\ i' = i + 1
            /\ failed' = Append(failed, top_crates[i])
       ELSE /\ pc' = "crashed"
            /\ UNCHANGED << i, failed >>
    /\ UNCHANGED << err, gtcVars, top_crates, downloads, tools, buildVars,
                    patVars, crate_name, sigVars, calls, disk >>

(* --------------------------- specifications --------------------------- *)

Tools == {"pelf", "pcf", "sigmake"}

\* no crate in hand: nothing unpacked, built or generated
IdleBuild ==
    /\ hostOutcome = NoOutcome /\ crossOutcome = NoOutcome
    /\ built_libs = << >> /\ build_raised = FALSE

IdleSig ==
    /\ pat_paths = << >> /\ j = 1 /\ pat_path = None /\ sig_args = << >>
    /\ exc = NoExcFile
    /\ sig_ret = << >> /\ calls = << >>

Idle ==
    /\ err = NoExc
    /\ cargo_orig = NoFile /\ cargo_file = NoFile /\ patches = 0
    /\ IdleBuild
    /\ static_lib_paths = << >> /\ crate_name = 0 /\ k = 1
    /\ generated_pats = << >>
    /\ IdleSig
    /\ disk = {}

\* main(): get_top_crates(NUM_TOP) against a registry of 0 .. MaxCrates crates
Init ==
    /\ pc = "gtc_loop"
    /\ n = NUM_TOP /\ total \in 0 .. MaxCrates
    /\ crates = << >> /\ page = 1 /\ requests = << >>
    /\ top_crates = << >> /\ i = 1 /\ downloads = << >> /\ failed = << >>
    /\ tools \in SUBSET Tools
    /\ Idle

Next ==
    \/ GtcIter \/ GtcReturn
    \/ MainNext \/ DownloadCrate
    \/ BuildPatch \/ BuildHost \/ BuildCross \/ BuildReturn
    \/ GenPatIter \/ GenPatReturn
    \/ MainSigLoop \/ GenSigAttempt \/ GenSigCollision \/ GenSigCheck
    \/ MainExcept

Spec == Init /\ [][Next]_vars

\* get_top_crates(n) on its own, for the requested counts and the registry
\* sizes around every page boundary up to MaxPages pages
TopCounts ==
    {c \in 0 .. MaxPages * per_page + 1 :
        \E p \in 0 .. MaxPages, d \in {-1, 0, 1} : c = p * per_page + d}

InitTop ==
    /\ pc = "gtc_loop"
    /\ n \in TopCounts /\ total \in TopCounts
    /\ crates = << >> /\ page = 1 /\ requests = << >>
    /\ top_crates = << >> /\ i = 1 /\ downloads = << >> /\ failed = << >>
    /\ tools = Tools
    /\ Idle

NextTop == GtcIter \/ GtcReturn

SpecTop == InitTop /\ [][NextTop]_vars

\* the manifest patch on its own, applied up to MaxPatches times to every
\* manifest of Manifests
InitPatch ==
    /\ pc = "patch"
    /\ n = 0 /\ total = 0
    /\ crates = << >> /\ page = 1 /\ requests = << >>
    /\ top_crates = << >> /\ i = 1 /\ downloads = << >> /\ failed = << >>
    /\ tools = Tools
    /\ err = NoExc
    /\ \E m \in Manifests :
          cargo_orig = File(TRUE, m) /\ cargo_file = File(TRUE, m)
    /\ patches = 0
    /\ IdleBuild
    /\ static_lib_paths = << >> /\ crate_name = 0 /\ k = 1
    /\ generated_pats = << >>
    /\ IdleSig
    /\ disk = {}

NextPatch == ApplyPatch

SpecPatch == InitPatch /\ [][NextPatch]_vars

\* generate_pat on its own: any list of up to MaxLibs artifact paths, with
\* recognised and unrecognised extensions, each on disk or not, and any set
\* of pattern tools installed
ArtifactPaths == {Path(HostDir, 1, "", e) : e \in {"a", "lib", "so"}}

Range(s) == {s[x] : x \in DOMAIN s}

InitPat ==
    /\ pc = "gp_loop"
    /\ n = 0 /\ total = 0
    /\ crates = << >> /\ page = 1 /\ requests = << >>
    /\ top_crates = << 1 >> /\ i = 1 /\ downloads = << 1 >> /\ failed = << >>
    /\ tools \in SUBSET {"pelf", "pcf"}
    /\ err = NoExc
    /\ cargo_orig = NoFile /\ cargo_file = NoFile /\ patches = 0
    /\ IdleBuild
    /\ static_lib_paths \in SeqsUpTo(ArtifactPaths, MaxLibs)
    /\ crate_name = 1 /\ k = 1
    /\ generated_pats = << >>
    /\ IdleSig
    /\ disk \in SUBSET Range(static_lib_paths)

NextPat == GenPatIter \/ GenPatReturn

SpecPat == InitPat /\ [][NextPat]_vars

(* ------------------------------- claims ------------------------------- *)

\* the positions in calls of the invocations of `tool` on `arg`
CallsOf(tool, arg) ==
    {x \in DOMAIN calls : calls[x].tool = tool /\ calls[x].arg = arg}

First(S) == CHOOSE x \in S : \A y \in S : x <= y

IsPrefix(s, t) == Len(s) <= Len(t) /\ s = SubSeq(t, 1, Len(s))

\* main holds the list get_top_crates returned
InMain ==
    /\ pc \notin {"gtc_loop", "gtc_return"}
    /\ ~(pc = "crashed" /\ err.at = "get_top_crates")

\* main has left the body of its for loop for the crate at position i - 1
CrateOver == pc = "main_loop" /\ i > 1

\* C1: whatever fails inside one crate's processing, main's handler takes
\* it: the run never crashes once the list is there, download_crate has
\* been reached exactly once for each name up to the loop position, in list
\* order, the run can always go on until it is done with every name, and a
\* crate whose generate_pat raised for a missing pattern tool has had no
\* sigmake invocation.
C1_FaultIsolation ==
    InMain =>
        /\ pc # "crashed"
        /\ downloads = SubSeq(top_crates, 1,
                              IF pc \in {"main_loop", "download", "done"}
                              THEN i - 1 ELSE i)
        /\ IsPrefix(downloads, top_crates)
        /\ (pc = "done" => downloads = top_crates)
        /\ (pc # "done" => ENABLED Next)
        /\ (err.at = "generate_pat" =>
               /\ err.type = "FileNotFoundError"
               /\ sig_args = << >>
               /\ \A x \in DOMAIN calls : calls[x].tool # "sigmake")

\* main scheduled until it stops: the one thread always takes its next step
FairSpec == Spec /\ WF_vars(Next)

\* C1, the end of the run: under FairSpec every run stops, done with the
\* list or crashed inside get_top_crates
C1_RunEnds == <>(pc \in {"done", "crashed"})

\* C1 witness: pelf is missing, the first of two crates failed, the second
\* was still processed down to its signature, and the run is done
C1_Witness ==
    /\ pc = "done"
    /\ downloads = << 1, 2 >>
    /\ failed = << 1 >>
    /\ "pelf" \notin tools
    /\ sig_ret # << >>

\* a target succeeded: cargo exits 0 for it and leaves its static library
Succeeded(dir, o) == o.exit = "ok" /\ find_static_lib(dir, 0, o) # None

SucceededTargets ==
    (IF Succeeded(HostDir, hostOutcome) THEN 1 ELSE 0)
    + (IF Succeeded(CrossDir, crossOutcome) THEN 1 ELSE 0)

\* C2 (as claimed): build_as_staticlib raises for no non-zero cargo exit,
\* and for every pair of outcomes of the two builds the list it returns is
\* as long as the number of targets that succeeded.
C2_LengthIsSucceededTargets ==
    /\ (build_raised =>
           \/ ~cargo_file.exists
           \/ hostOutcome.exit = "oserror"
           \/ crossOutcome.exit = "oserror")
    /\ (pc = "build_return" => Len(built_libs) = SucceededTargets)

\* C3 (as claimed): when the host build fails, the cross build is still
\* invoked, and its artifact, if produced, is in the returned list.
C3_CrossBuildAfterHostFailure ==
    (pc = "build_return" /\ hostOutcome.exit = "fail") =>
        /\ \E x \in DOMAIN calls :
              calls[x].tool = "cargo" /\ calls[x].out.dir = CrossDir
        /\ (Succeeded(CrossDir, crossOutcome) =>
               find_static_lib(CrossDir, top_crates[i], crossOutcome)
                   \in Range(built_libs))

\* generate_sig has been called on pat_path and is over
SigOver == pat_path # None /\ pc \notin {"gs_start", "gs_collision", "gs_check"}

\* C4 (as claimed): sigmake runs at most twice for one pattern file, the
\* second time only after a failed first run with an exclusion file that
\* was cleaned; and once the retry has been made generate_sig returns the
\* signature path with the file on disk, or None.
C4_RetryOnceThenReturn ==
    LET runs == CallsOf("sigmake", pat_path)
    IN  pat_path # None =>
           /\ Cardinality(runs) <= 2
           /\ (Cardinality(runs) = 2 =>
                  /\ calls[First(runs)].exit = "fail"
                  /\ exc.exists
                  /\ \A x \in DOMAIN exc.lines : Kept(exc.lines[x]))
           /\ (Cardinality(runs) = 2 /\ SigOver =>
                  /\ err.at # "generate_sig"
                  /\ Len(sig_ret) = Len(sig_args)
                  /\ \/ sig_ret[Len(sig_ret)] = None
                     \/ /\ sig_ret[Len(sig_ret)] = SigPath(pat_path)
                        /\ SigPath(pat_path) \in disk)

\* sigmake failed on the pattern file p and again on the retry
Exhausted(p) ==
    /\ Cardinality(CallsOf("sigmake", p)) = 2
    /\ \A x \in CallsOf("sigmake", p) : calls[x].exit = "fail"

\* C5 (as claimed): a collision that exhausts the retry is skipped, and
\* every other pattern file of the crate still has its signature attempted.
C5_ExhaustedRetryIsSoft ==
    (CrateOver /\ \E x \in DOMAIN pat_paths : Exhausted(pat_paths[x])) =>
        \A y \in DOMAIN pat_paths : CallsOf("sigmake", pat_paths[y]) # {}

\* build_as_staticlib returned, for the crate in hand, the host library
\* and nothing else
BuildReturned ==
    ~build_raised /\ pc \notin {"download", "build_patch", "build_host", "build_cross"}

HostOnly ==
    /\ BuildReturned
    /\ Len(built_libs) = 1
    /\ built_libs[1].dir = HostDir
    /\ built_libs[1].ext = "a"

LinuxPat(crate) == Path(OUTPUT_DIR, crate, "_linux", "pat")

NoWinPath ==
    /\ \A x \in DOMAIN calls :
          calls[x].arg.suffix # "_win" /\ calls[x].out.suffix # "_win"
    /\ \A f \in disk : f.suffix # "_win"

\* each pattern file carries the suffix of the target its artifact was
\* built for
SuffixMatchesTarget ==
    \A x \in DOMAIN generated_pats :
        \E y \in DOMAIN calls :
            /\ calls[y].out = generated_pats[x]
            /\ calls[y].exit = "ok"
            /\ generated_pats[x].suffix =
                  IF calls[y].arg.dir = HostDir THEN "_linux" ELSE "_win"

\* C6 (as claimed): a crate with the host library only ends with exactly one
\* pattern file, <crate>_linux.pat, exactly one generate_sig call, for it,
\* and no *_win path anywhere; and for every crate the number of
\* generate_sig calls is the number of pattern files generate_pat returned,
\* each with the suffix of its target.
C6_HostOnlyExactlyOne ==
    /\ (CrateOver /\ HostOnly =>
           /\ pat_paths = << LinuxPat(built_libs[1].crate) >>
           /\ sig_args = pat_paths
           /\ NoWinPath)
    /\ (CrateOver => Len(sig_args) = Len(pat_paths))
    /\ SuffixMatchesTarget

\* pelf was run on the host library, exited 0 and left the pattern file
PelfProduced ==
    \E x \in DOMAIN calls :
        /\ calls[x].tool = "pelf"
        /\ calls[x].exit = "ok"
        /\ calls[x].made

\* C6 (amended): a crate with the host library only ends with at most one
\* pattern file, <crate>_linux.pat, and with exactly that one if and only
\* if pelf ran, exited 0 and left the file; generate_sig is called exactly
\* once for it, and no *_win path is used or written.  For every crate
\* generate_sig is called on the returned pattern files in order, on each
\* at most once, and on fewer than all of them only when one of the calls
\* raised; each pattern file carries the suffix of its target.
C6_HostOnlyAtMostOne ==
    /\ (HostOnly =>
           /\ NoWinPath
           /\ \A x \in DOMAIN calls :
                 calls[x].tool = "sigmake" =>
                    calls[x].arg = LinuxPat(built_libs[1].crate))
    /\ (CrateOver /\ HostOnly =>
           /\ pat_paths = IF PelfProduced
                          THEN << LinuxPat(built_libs[1].crate) >>
                          ELSE << >>
           /\ sig_args = pat_paths)
    /\ IsPrefix(sig_args, pat_paths)
    /\ (CrateOver /\ Len(sig_args) < Len(pat_paths) =>
           err.at = "generate_sig")
    /\ (CrateOver /\ err = NoExc => sig_args = pat_paths)
    /\ SuffixMatchesTarget

\* C6 witness: a host-only crate is over with its one pattern file and one
\* generate_sig call, which returned
C6_Witness ==
    /\ CrateOver /\ HostOnly
    /\ pat_paths = << LinuxPat(built_libs[1].crate) >>
    /\ sig_args = pat_paths
    /\ Len(sig_ret) = 1

\* C7: get_top_crates(n) returns exactly min(n, total) identifiers, all
\* different, in the registry's order; the pages it requested are 1, 2, ...
\* in order, and every page before the last requested one was a full page
\* that left fewer than n identifiers accumulated.
C7_TopCrates ==
    pc = "main_loop" =>
        /\ Len(top_crates) = Min(n, total)
        /\ \A a, b \in DOMAIN top_crates :
              a # b => top_crates[a] # top_crates[b]
        /\ \A a \in DOMAIN top_crates : top_crates[a] = a
        /\ requests = [x \in 1 .. Len(requests) |-> x]
        /\ (n = 0 => requests = << >>)
        /\ (n > 0 => requests # << >>)
        /\ \A x \in 1 .. Len(requests) - 1 :
              /\ total - (x - 1) * per_page >= per_page
              /\ x * per_page < n

\* C7 witness: 101 of 201 crates asked for: two full pages are requested
\* and the 200 accumulated identifiers are cut to 101
C7_Witness ==
    /\ pc = "main_loop"
    /\ n = per_page + 1
    /\ total = 2 * per_page + 1
    /\ Len(requests) = 2
    /\ Len(crates) = 2 * per_page
    /\ Len(top_crates) = per_page + 1

\* C8: once patched, the manifest is what one application of the patch to
\* the unpacked manifest gives, however often the patch was applied;
\* lib.crate-type is exactly ["staticlib"]; profile.release.panic is the
\* value it had, or "abort" if it had none; every other field is as it was.
C8_PatchIdempotent ==
    (pc = "patch" /\ patches >= 1) =>
        LET m0 == cargo_orig.data
            m == cargo_file.data
            lib0 == Get(m0, "lib", EmptyDict)
            prof0 == Get(m0, "profile", EmptyDict)
            rel0 == Get(prof0, "release", EmptyDict)
        IN  /\ m = PatchManifest(m0)
            /\ PatchManifest(m) = m
            /\ m["lib"]["crate-type"] = << "staticlib" >>
            /\ m["profile"]["release"]["panic"] =
                  IF Has(rel0, "panic") THEN rel0["panic"] ELSE "abort"
            /\ DOMAIN m = DOMAIN m0 \cup {"lib", "profile"}
            /\ \A key \in DOMAIN m0 \ {"lib", "profile"} : m[key] = m0[key]
            /\ Without(m["lib"], "crate-type") = Without(lib0, "crate-type")
            /\ Without(m["profile"], "release") = Without(prof0, "release")
            /\ Without(m["profile"]["release"], "panic") = Without(rel0, "panic")

\* C8 witness: the patch applied twice to a manifest that declares other
\* library kinds, a name, and panic = "unwind"
C8_Witness ==
    /\ pc = "patch"
    /\ patches = 2
    /\ Has(cargo_orig.data, "lib")
    /\ Get(cargo_orig.data["lib"], "crate-type", << >>) = << "cdylib", "rlib" >>
    /\ Has(cargo_orig.data["lib"], "name")
    /\ Has(cargo_orig.data, "profile")
    /\ Has(cargo_orig.data["profile"], "release")
    /\ Get(cargo_orig.data["profile"]["release"], "panic", "") = "unwind"
    /\ cargo_file.data["profile"]["release"]["panic"] = "unwind"

\* sigmake failed on pat_path, left no exclusion file, and the handler of
\* the failure has run
GaveUpWithoutExc ==
    /\ pat_path # None
    /\ CallsOf("sigmake", pat_path) # {}
    /\ calls[First(CallsOf("sigmake", pat_path))].exit = "fail"
    /\ ~exc.exists
    /\ pc # "gs_collision"

\* C9: when the first sigmake run fails and there is no exclusion file,
\* sigmake is not run again for that pattern file, generate_sig returns
\* None, nothing is raised, and main goes on with its loop over the pattern
\* files: it leaves the crate only once generate_sig has been called on
\* every one of them.
C9_NoExcNoRetry ==
    GaveUpWithoutExc =>
        /\ Cardinality(CallsOf("sigmake", pat_path)) = 1
        /\ err = NoExc
        /\ Len(sig_ret) = Len(sig_args)
        /\ sig_ret[Len(sig_ret)] = None
        /\ j = Len(sig_args) + 1
        /\ pc \in {"main_sig_loop", "main_loop", "done"}
        /\ (pc \in {"main_loop", "done"} => sig_args = pat_paths)

\* C9 witness: of two pattern files the first had one failing sigmake run
\* and None returned, and generate_sig was then called on the second
C9_Witness ==
    /\ Len(pat_paths) = 2
    /\ Len(sig_args) = 2
    /\ sig_ret # << >>
    /\ sig_ret[1] = None
    /\ Cardinality(CallsOf("sigmake", pat_paths[1])) = 1
    /\ \A x \in CallsOf("sigmake", pat_paths[1]) : calls[x].exit = "fail"
    /\ CallsOf("sigmake", pat_paths[2]) # {}

\* generate_pat has returned
PatReturned == pc \in {"main_loop", "main_sig_loop"}

\* the artifacts of the list before position m that exist and have a
\* recognised extension, in order
RECURSIVE Recognised(_)
Recognised(m) ==
    IF m = 0
    THEN << >>
    ELSE IF static_lib_paths[m] \in disk /\ static_lib_paths[m].ext \in StaticLibExts
         THEN Append(Recognised(m - 1), static_lib_paths[m])
         ELSE Recognised(m - 1)

\* C10: no tool is invoked for an artifact whose extension is neither .a
\* nor .lib and no pattern path is derived from it; generate_pat raises only
\* at an artifact with a recognised extension; the artifacts that exist and
\* have a recognised extension each get their tool invoked, in list order;
\* and every returned path is a .pat file that is the output of an
\* invocation that exited 0 and left the file on disk.
C10_UnknownExtensionSkipped ==
    /\ \A x \in DOMAIN calls : calls[x].arg.ext \in StaticLibExts
    /\ (err.at = "generate_pat" =>
           static_lib_paths[k].ext \in StaticLibExts)
    /\ (pc = "gp_loop" \/ PatReturned =>
           [x \in DOMAIN calls |-> calls[x].arg] = Recognised(k - 1))
    /\ (PatReturned => k = Len(static_lib_paths) + 1 /\ pat_paths = generated_pats)
    /\ \A x \in DOMAIN generated_pats :
          /\ generated_pats[x].ext = "pat"
          /\ \E y \in DOMAIN calls :
                /\ calls[y].out = generated_pats[x]
                /\ calls[y].exit = "ok"
                /\ calls[y].made
                /\ generated_pats[x].suffix =
                      IF calls[y].arg.ext = "a" THEN "_linux" ELSE "_win"

\* C10 witness: generate_pat returned for a list of a .so and a .a, both on
\* disk, with the one pattern file of the .a
C10_Witness ==
    /\ PatReturned
    /\ Len(static_lib_paths) = 2
    /\ static_lib_paths[1].ext = "so"
    /\ static_lib_paths[2].ext = "a"
    /\ Range(static_lib_paths) \subseteq disk
    /\ pat_paths = << LinuxPat(1) >>
    /\ Len(calls) = 1

====
